---- MODULE Spec2Model ----
(***************************************************************************)
(* SenderQueue<Item> (wsd/SenderQueue.hpp): the per-session coalescing     *)
(* send queue.  Items are shared pointers to Messages; a Message is        *)
(* identified here by its index in the table Message.  The Message and     *)
(* TileDesc classes and the JSON parser are collaborators of the queue:    *)
(* they are modelled by what the queue asks of them.                       *)
(***************************************************************************)
EXTENDS Integers, Sequences, FiniteSets, TLC

\* Bound on the number of enqueue calls in one behaviour.
MaxCalls == 3

\* Bound on the number of enqueue calls in one behaviour of the threaded
\* specification.
MaxConcCalls == 2

\* Bound on the number of enqueue calls in one behaviour of the threads that
\* only enqueue and dequeue.
MaxFlowCalls == 3

NoItem == 0
NoHash == -1

NoLine == [valid |-> FALSE, part |-> 0, x |-> 0, y |-> 0, zoom |-> 0, ver |-> 0]
NoJson == [valid |-> FALSE, hasViewId |-> FALSE, viewId |-> ""]

setvalueTag == "\"id\":\"setvalue\""

\* A tile: message (binary): its first line carries the descriptor fields and
\* a version; abbr is the abbreviated content a dump shows.
TileMsg(id, part, x, y, zoom, ver, bytes, abbr) ==
    [token |-> "tile:",
     line |-> [valid |-> TRUE, part |-> part, x |-> x, y |-> y, zoom |-> zoom, ver |-> ver],
     body |-> <<bytes>>, json |-> NoJson,
     binary |-> TRUE, id |-> id, size |-> 8, abbr |-> abbr]

\* A text message: the payload is a list of fragments after the command token.
TextMsg(id, token, body, abbr) ==
    [token |-> token, line |-> NoLine, body |-> body, json |-> NoJson,
     binary |-> FALSE, id |-> id, size |-> Len(body) + 1, abbr |-> abbr]

\* An invalidateviewcursor: message with a JSON payload naming a view.
ViewMsg(id, viewId, rect, abbr) ==
    [token |-> "invalidateviewcursor:", line |-> NoLine, body |-> <<rect>>,
     json |-> [valid |-> TRUE, hasViewId |-> TRUE, viewId |-> viewId],
     binary |-> FALSE, id |-> id, size |-> 3, abbr |-> abbr]

\* The Message objects a producer may hand to the queue.
Message ==
    << TileMsg("m1", 0, 0, 31, 1, 1, "png-a", "tile: part=0 x=0 y=31 ver=1"),
       \* 2: the same tile as 1, rendered again
       TileMsg("m2", 0, 0, 31, 1, 2, "png-b", "tile: part=0 x=0 y=31 ver=2"),
       \* 3: another tile with the hash of 1
       TileMsg("m3", 0, 1, 0, 1, 1, "png-c", "tile: part=0 x=1 y=0 ver=1"),
       TileMsg("m4", 1, 0, 0, 1, 1, "png-d", "tile: part=1 x=0 y=0 ver=1"),
       \* 5: a tile: message whose first line does not parse
       [token |-> "tile:", line |-> NoLine, body |-> <<"garbage">>, json |-> NoJson,
        binary |-> TRUE, id |-> "m5", size |-> 2, abbr |-> "tile: garbage"],
       TextMsg("m6", "invalidatecursor:", <<"0, 0, 10, 10">>,
               "invalidatecursor: 0, 0, 10, 10"),
       TextMsg("m7", "setpart:", <<"1">>, "setpart: 1"),
       TextMsg("m8", "progress:", <<"{", setvalueTag, "}">>, "progress: setvalue"),
       TextMsg("m9", "progress:", <<"{", "\"id\":\"finish\"", "}">>,
               "progress: finish"),
       ViewMsg("m10", "1", "a", "invalidateviewcursor: 1"),
       ViewMsg("m11", "2", "b", "invalidateviewcursor: 2"),
       \* 12: an invalidateviewcursor: message whose payload is no JSON
       [token |-> "invalidateviewcursor:", line |-> NoLine, body |-> <<"{oops">>,
        json |-> NoJson, binary |-> FALSE, id |-> "m12", size |-> 2,
        abbr |-> "invalidateviewcursor: {oops"],
       TextMsg("m13", "statusindicator:", <<"ready">>, "statusindicator: ready"),
       \* 14: another Message object with the content of 13
       TextMsg("m14", "statusindicator:", <<"ready">>, "statusindicator: ready"),
       \* 15: a binary message, a first line followed by bytes
       [token |-> "renderfont:", line |-> NoLine, body |-> <<"a", "png-e">>,
        json |-> NoJson, binary |-> TRUE, id |-> "m15", size |-> 7,
        abbr |-> "renderfont: a..."],
       \* 16: a text message of several lines with the first line of 15
       [token |-> "renderfont:", line |-> NoLine, body |-> <<"a", "b">>,
        json |-> NoJson, binary |-> FALSE, id |-> "m16", size |-> 4,
        abbr |-> "renderfont: a..."],
       \* 17: a text message with no data
       [token |-> "", line |-> NoLine, body |-> <<>>, json |-> NoJson,
        binary |-> FALSE, id |-> "m17", size |-> 0, abbr |-> ""] >>

\* The Messages that only the specification of the diagnostics enqueues.
DiagOnly == {14, 15, 16, 17}

\* The Messages the callers of the sequential specification enqueue.
Items == DOMAIN Message \ DiagOnly

\* The Messages enqueued where size() and dumpState() are checked.
DumpItems == {1, 13} \cup DiagOnly

\* The Messages the producer threads of the threaded specification enqueue.
ConcItems == {1, 2, 5, 13}

\* The Messages they enqueue where termination of the calls is checked: one
\* that makes enqueue raise and one that it appends.
LiveItems == {5, 13}

\* The Messages they enqueue where the flow of the messages through the queue
\* is checked: a tile, which supersedes a queued tile of the same description,
\* and a plain text, which supersedes nothing.
FlowItems == {1, 13}

\* The threads of the threaded specification: two producers (enqueue) and the
\* session's writer (dequeue, size, dumpState).
Producers == {"p1", "p2"}
Consumers == {"c1"}
Threads == Producers \cup Consumers

\* The stream before dumpState wrote to it.
NoReport == [written |-> FALSE, items |-> 0, lines |-> <<>>, bytes |-> 0]

VARIABLES
    queue,            \* _queue: the deque of Items, head first
    hash,             \* Message::_hash of every Message object
    terminationFlag,  \* SigUtil::getTerminationFlag()
    item,             \* the Item& the consumer passes to dequeue
    mutex,            \* _mutex: the thread that holds it, or "free"
    pc,               \* where each thread is in the operation it called
    arg,              \* the Item of each thread's enqueue call in progress
    os,               \* what dumpState wrote to the caller's stream last
    calls,            \* history: the Item of every enqueue call, in the order
                      \* the calls took effect
    caller,           \* history: the thread that made each of these calls
    hashSets,         \* history: the Item of every setHash call, in order
    qstamp,           \* history: for each queue entry, the call that appended it
    fate,             \* history: what became of each enqueue call
    out,              \* history: what dequeue returned, in order: the item, the
                      \* call that appended it, the number of calls made so far
    last,             \* history: the operation that completed last
    lateCall,         \* history: the thread's call in progress began with the
                      \* termination flag set
    readLate          \* history: the thread's call in progress read the
                      \* termination flag when it was set

vars == <<queue, hash, terminationFlag, item, mutex, pc, arg, os,
          calls, caller, hashSets, qstamp, fate, out, last, lateCall, readLate>>

\* What only the threaded specification changes.
threadVars == <<mutex, pc, arg, lateCall, readLate>>

----------------------------------------------------------------------------
(* Message and TileDesc, as the queue uses them *)

firstToken(m) == Message[m].token

firstTokenMatches(m, target) == firstToken(m) = target

firstLine(m) == Message[m].line

isBinary(m) == Message[m].binary

contains(m, tag) == \E i \in DOMAIN Message[m].body : Message[m].body[i] = tag

jsonString(m) == Message[m].json

\* TileDesc::parse succeeds on this line (it raises an exception otherwise).
ParseOk(line) == line.valid

\* TileDesc::parse: the descriptor named by a first line; the version of the
\* rendering is not part of the descriptor's identity.
TileDesc_parse(line) ==
    [part |-> line.part, x |-> line.x, y |-> line.y, zoom |-> line.zoom]

\* TileDesc::equalityHash: a hash of the descriptor's fields.  Every descriptor
\* of the table Message hashes far below 2^32, so the uint32_t never wraps;
\* descriptors 1 and 3 of the table collide.
equalityHash(t) ==
    ((31 * t.part + t.x) * 31 + t.y) * 31 + t.zoom

\* Parsing the payload as JSON, extracting the object and reading "viewId"
\* succeeds (one of the three raises an exception otherwise).
JsonOk(js) == js.valid /\ js.hasViewId

viewIdOf(js) == js.viewId

----------------------------------------------------------------------------
(* std::deque helpers *)

\* std::find_if over the positions S that satisfy the predicate: the first
\* one, or 0 for end().
FirstOf(S) == IF S = {} THEN 0 ELSE CHOOSE i \in S : \A j \in S : i <= j

\* Mutation: erase(pos, end()) for erase(pos).
Erase_ToEnd(q, pos) ==
    IF pos = 0 THEN q ELSE SubSeq(q, 1, pos - 1)

\* Mutation: the head of the deque goes with the erased item.
Erase_AlsoHead(q, pos) ==
    IF pos = 0 THEN q
    ELSE IF pos = 1 THEN Tail(q)
    ELSE [i \in 1..(Len(q) - 2) |-> IF i + 1 < pos THEN q[i + 1] ELSE q[i + 2]]

\* _queue.erase(pos); pos = 0 stands for "nothing to erase".
Erase(q, pos) ==
    IF pos = 0 THEN q
    ELSE [i \in 1..(Len(q) - 1) |-> IF i < pos THEN q[i] ELSE q[i + 1]]

----------------------------------------------------------------------------
(* SenderQueue::deduplicate *)

\* Mutation: the hash gate inverted (== for !=).
TileCandidate_Inverted(newHash, cur, h) ==
    /\ firstTokenMatches(cur, "tile:")
    /\ newHash # h[cur]

\* The lambda of the tile: branch, up to the point where it parses cur.
TileCandidate(newHash, cur, h) ==
    /\ firstTokenMatches(cur, "tile:")
    /\ newHash = h[cur]

\* Mutation: the full comparison after the hash gate left out.
TileMatches_HashOnly(newTile, newHash, cur, h) ==
    /\ firstTokenMatches(cur, "tile:")
    /\ newHash = h[cur]

\* The lambda of the tile: branch returns true for cur.
TileMatches(newTile, newHash, cur, h) ==
    /\ TileCandidate(newHash, cur, h)
    /\ ParseOk(firstLine(cur))
    /\ newTile = TileDesc_parse(firstLine(cur))

\* Mutation: either of the two commands counts as a match.
CommandMatches_Either(command, cur) ==
    firstTokenMatches(cur, "invalidatecursor:") \/ firstTokenMatches(cur, "setpart:")

\* Mutation: the queued message's token is matched by its prefix, so that
\* invalidateviewcursor: counts as invalidatecursor:.
CommandMatches_Prefix(command, cur) ==
    \/ firstTokenMatches(cur, command)
    \/ command = "invalidatecursor:" /\ firstTokenMatches(cur, "invalidateviewcursor:")

\* The lambda of the invalidatecursor:/setpart: branch.
CommandMatches(command, cur) == firstTokenMatches(cur, command)

\* Mutation: the setvalue test on the queued message left out.
ProgressMatches_TokenOnly(command, cur) == firstTokenMatches(cur, command)

\* The lambda of the progress: branch.
ProgressMatches(command, cur) ==
    firstTokenMatches(cur, command) /\ contains(cur, setvalueTag)

\* Mutation: the viewId comparison left out.
ViewMatches_AnyView(command, viewId, cur) ==
    /\ firstTokenMatches(cur, command)
    /\ JsonOk(jsonString(cur))

\* The lambda of the invalidateviewcursor: branch returns true for cur.
ViewMatches(command, viewId, cur) ==
    /\ firstTokenMatches(cur, command)
    /\ JsonOk(jsonString(cur))
    /\ viewId = viewIdOf(jsonString(cur))

\* Mutation: queued tiles compared by their first line, not by descriptor.
DedupTile_RawLine(q, h, it) ==
    IF ~ParseOk(firstLine(it))
    THEN [threw |-> TRUE, pos |-> 0, hash |-> h, set |-> FALSE]
    ELSE LET h2 == [h EXCEPT ![it] = equalityHash(TileDesc_parse(firstLine(it)))]
         IN [threw |-> FALSE,
             pos |-> FirstOf({i \in 1..Len(q) :
                        /\ firstTokenMatches(q[i], "tile:")
                        /\ h2[it] = h2[q[i]]
                        /\ firstLine(q[i]) = firstLine(it)}),
             hash |-> h2, set |-> TRUE]

\* Mutation: the hash stored depends on how many messages are queued.
DedupTile_HashByLength(q, h, it) ==
    IF ~ParseOk(firstLine(it))
    THEN [threw |-> TRUE, pos |-> 0, hash |-> h, set |-> FALSE]
    ELSE LET newTile == TileDesc_parse(firstLine(it))
             newHash == equalityHash(newTile) + Len(q)
             h2 == [h EXCEPT ![it] = newHash]
             stop == FirstOf({i \in 1..Len(q) :
                         \/ TileMatches(newTile, newHash, q[i], h2)
                         \/ /\ TileCandidate(newHash, q[i], h2)
                            /\ ~ParseOk(firstLine(q[i]))})
         IN IF stop # 0 /\ ~ParseOk(firstLine(q[stop]))
            THEN [threw |-> TRUE, pos |-> 0, hash |-> h2, set |-> TRUE]
            ELSE [threw |-> FALSE, pos |-> stop, hash |-> h2, set |-> TRUE]

\* Mutation: the search ends at the first queued tile with the new hash,
\* whether or not its descriptor is the new one.
DedupTile_StopsAtCollision(q, h, it) ==
    IF ~ParseOk(firstLine(it))
    THEN [threw |-> TRUE, pos |-> 0, hash |-> h, set |-> FALSE]
    ELSE LET newTile == TileDesc_parse(firstLine(it))
             newHash == equalityHash(newTile)
             h2 == [h EXCEPT ![it] = newHash]
             stop == FirstOf({i \in 1..Len(q) : TileCandidate(newHash, q[i], h2)})
         IN IF stop # 0 /\ ~ParseOk(firstLine(q[stop]))
            THEN [threw |-> TRUE, pos |-> 0, hash |-> h2, set |-> TRUE]
            ELSE IF stop # 0 /\ TileMatches(newTile, newHash, q[stop], h2)
            THEN [threw |-> FALSE, pos |-> stop, hash |-> h2, set |-> TRUE]
            ELSE [threw |-> FALSE, pos |-> 0, hash |-> h2, set |-> TRUE]

\* Mutation: the hash of the new tile is computed but not stored.
DedupTile_NoSetHash(q, h, it) ==
    IF ~ParseOk(firstLine(it))
    THEN [threw |-> TRUE, pos |-> 0, hash |-> h, set |-> FALSE]
    ELSE LET newTile == TileDesc_parse(firstLine(it))
             newHash == equalityHash(newTile)
             stop == FirstOf({i \in 1..Len(q) :
                         \/ TileMatches(newTile, newHash, q[i], h)
                         \/ /\ TileCandidate(newHash, q[i], h)
                            /\ ~ParseOk(firstLine(q[i]))})
         IN IF stop # 0 /\ ~ParseOk(firstLine(q[stop]))
            THEN [threw |-> TRUE, pos |-> 0, hash |-> h, set |-> FALSE]
            ELSE [threw |-> FALSE, pos |-> stop, hash |-> h, set |-> FALSE]

\* The tile: branch.  The result names the position to erase (0: none),
\* whether an exception left the function, the hashes afterwards and whether
\* setHash was called.
DedupTile(q, h, it) ==
    IF ~ParseOk(firstLine(it))
    THEN [threw |-> TRUE, pos |-> 0, hash |-> h, set |-> FALSE]
    ELSE LET newTile == TileDesc_parse(firstLine(it))
             newHash == equalityHash(newTile)
             h2 == [h EXCEPT ![it] = newHash]
             stop == FirstOf({i \in 1..Len(q) :
                         \/ TileMatches(newTile, newHash, q[i], h2)
                         \/ /\ TileCandidate(newHash, q[i], h2)
                            /\ ~ParseOk(firstLine(q[i]))})
         IN IF stop # 0 /\ ~ParseOk(firstLine(q[stop]))
            THEN [threw |-> TRUE, pos |-> 0, hash |-> h2, set |-> TRUE]
            ELSE [threw |-> FALSE, pos |-> stop, hash |-> h2, set |-> TRUE]

\* The invalidatecursor:/setpart: branch.
DedupCommand(q, h, it) ==
    [threw |-> FALSE,
     pos |-> FirstOf({i \in 1..Len(q) : CommandMatches(firstToken(it), q[i])}),
     hash |-> h, set |-> FALSE]

\* The progress: branch.
DedupProgress(q, h, it) ==
    [threw |-> FALSE,
     pos |-> IF contains(it, setvalueTag)
             THEN FirstOf({i \in 1..Len(q) : ProgressMatches(firstToken(it), q[i])})
             ELSE 0,
     hash |-> h, set |-> FALSE]

\* Mutation: a payload that does not parse supersedes the first queued
\* message of its command.
DedupView_DropsOnFailure(q, h, it) ==
    IF ~JsonOk(jsonString(it))
    THEN [threw |-> FALSE,
          pos |-> FirstOf({i \in 1..Len(q) : firstTokenMatches(q[i], firstToken(it))}),
          hash |-> h, set |-> FALSE]
    ELSE LET command == firstToken(it)
             viewId == viewIdOf(jsonString(it))
             stop == FirstOf({i \in 1..Len(q) :
                         \/ ViewMatches(command, viewId, q[i])
                         \/ /\ firstTokenMatches(q[i], command)
                            /\ ~JsonOk(jsonString(q[i]))})
         IN IF stop # 0 /\ ~JsonOk(jsonString(q[stop]))
            THEN [threw |-> TRUE, pos |-> 0, hash |-> h, set |-> FALSE]
            ELSE [threw |-> FALSE, pos |-> stop, hash |-> h, set |-> FALSE]

\* The invalidateviewcursor: branch.
DedupView(q, h, it) ==
    IF ~JsonOk(jsonString(it))
    THEN [threw |-> TRUE, pos |-> 0, hash |-> h, set |-> FALSE]
    ELSE LET command == firstToken(it)
             viewId == viewIdOf(jsonString(it))
             stop == FirstOf({i \in 1..Len(q) :
                         \/ ViewMatches(command, viewId, q[i])
                         \/ /\ firstTokenMatches(q[i], command)
                            /\ ~JsonOk(jsonString(q[i]))})
         IN IF stop # 0 /\ ~JsonOk(jsonString(q[stop]))
            THEN [threw |-> TRUE, pos |-> 0, hash |-> h, set |-> FALSE]
            ELSE [threw |-> FALSE, pos |-> stop, hash |-> h, set |-> FALSE]

\* Mutation: setpart: missing from the second branch's condition.
deduplicate_CursorOnly(q, h, it) ==
    LET command == firstToken(it)
    IN IF command = "tile:" THEN DedupTile(q, h, it)
       ELSE IF command = "invalidatecursor:" THEN DedupCommand(q, h, it)
       ELSE IF command = "progress:" THEN DedupProgress(q, h, it)
       ELSE IF command = "invalidateviewcursor:" THEN DedupView(q, h, it)
       ELSE [threw |-> FALSE, pos |-> 0, hash |-> h, set |-> FALSE]

\* Mutation: a message of any other command replaces the queued one of its
\* command.
deduplicate_AnyToken(q, h, it) ==
    LET command == firstToken(it)
    IN IF command = "tile:" THEN DedupTile(q, h, it)
       ELSE IF command = "progress:" THEN DedupProgress(q, h, it)
       ELSE IF command = "invalidateviewcursor:" THEN DedupView(q, h, it)
       ELSE DedupCommand(q, h, it)

deduplicate(q, h, it) ==
    LET command == firstToken(it)
    IN IF command = "tile:" THEN DedupTile(q, h, it)
       ELSE IF command = "invalidatecursor:" \/ command = "setpart:"
            THEN DedupCommand(q, h, it)
       ELSE IF command = "progress:" THEN DedupProgress(q, h, it)
       ELSE IF command = "invalidateviewcursor:" THEN DedupView(q, h, it)
       ELSE [threw |-> FALSE, pos |-> 0, hash |-> h, set |-> FALSE]

----------------------------------------------------------------------------
(* SenderQueue::enqueue and SenderQueue::dequeue *)

\* Mutation: the new item takes the place of the one it supersedes.
Pushed_InPlace(q, pos, it) ==
    IF pos = 0 THEN Append(q, it) ELSE [q EXCEPT ![pos] = it]

\* Mutation: the new item is put at the head of the queue.
Pushed_Front(q, pos, it) == <<it>> \o Erase(q, pos)

\* The queue after enqueue's push_back, given what deduplicate decided.
Pushed(q, pos, it) == Append(Erase(q, pos), it)

\* Mutation: the termination flag is not consulted.
enqueue_NoFlag(q, h, flag, it) ==
    LET d == deduplicate(q, h, it)
    IN IF d.threw
       THEN [res |-> "threw", queue |-> q, hash |-> d.hash, set |-> d.set, pos |-> 0, ret |-> 0]
       ELSE [res |-> "queued", queue |-> Pushed(q, d.pos, it), hash |-> d.hash, set |-> d.set,
             pos |-> d.pos, ret |-> Len(Pushed(q, d.pos, it))]

\* Mutation: the size is taken before the push_back.
enqueue_SizeBefore(q, h, flag, it) ==
    IF flag
    THEN [res |-> "dropped", queue |-> q, hash |-> h, set |-> FALSE, pos |-> 0, ret |-> Len(q)]
    ELSE LET d == deduplicate(q, h, it)
         IN IF d.threw
            THEN [res |-> "threw", queue |-> q, hash |-> d.hash, set |-> d.set, pos |-> 0, ret |-> 0]
            ELSE [res |-> "queued", queue |-> Pushed(q, d.pos, it), hash |-> d.hash, set |-> d.set,
                  pos |-> d.pos, ret |-> Len(Erase(q, d.pos))]

\* Mutation: an enqueue that drops its message returns 0.
enqueue_DropReturnsZero(q, h, flag, it) ==
    IF flag
    THEN [res |-> "dropped", queue |-> q, hash |-> h, set |-> FALSE, pos |-> 0, ret |-> 0]
    ELSE LET d == deduplicate(q, h, it)
         IN IF d.threw
            THEN [res |-> "threw", queue |-> q, hash |-> d.hash, set |-> d.set,
                  pos |-> 0, ret |-> 0]
            ELSE [res |-> "queued", queue |-> Pushed(q, d.pos, it), hash |-> d.hash,
                  set |-> d.set, pos |-> d.pos, ret |-> Len(Pushed(q, d.pos, it))]

\* enqueue(item): res is "dropped" (termination), "threw" (an exception left
\* the call) or "queued"; ret is the returned size.
enqueue(q, h, flag, it) ==
    IF flag
    THEN [res |-> "dropped", queue |-> q, hash |-> h, set |-> FALSE, pos |-> 0, ret |-> Len(q)]
    ELSE LET d == deduplicate(q, h, it)
         IN IF d.threw
            THEN [res |-> "threw", queue |-> q, hash |-> d.hash, set |-> d.set, pos |-> 0, ret |-> 0]
            ELSE [res |-> "queued", queue |-> Pushed(q, d.pos, it), hash |-> d.hash, set |-> d.set,
                  pos |-> d.pos, ret |-> Len(Pushed(q, d.pos, it))]

\* Mutation: pop_back for pop_front.
dequeue_Back(q, flag, cur) ==
    IF flag THEN [ok |-> FALSE, queue |-> q, item |-> cur]
    ELSE IF q # <<>>
         THEN [ok |-> TRUE, queue |-> SubSeq(q, 1, Len(q) - 1), item |-> q[Len(q)]]
    ELSE [ok |-> FALSE, queue |-> q, item |-> cur]

\* Mutation: the caller's Item is reset when nothing is dequeued.
dequeue_ClearsItem(q, flag, cur) ==
    IF flag THEN [ok |-> FALSE, queue |-> q, item |-> cur]
    ELSE IF q # <<>> THEN [ok |-> TRUE, queue |-> Tail(q), item |-> Head(q)]
    ELSE [ok |-> FALSE, queue |-> q, item |-> NoItem]

\* Mutation: the head is returned and left in the deque.
dequeue_Peek(q, flag, cur) ==
    IF flag THEN [ok |-> FALSE, queue |-> q, item |-> cur]
    ELSE IF q # <<>> THEN [ok |-> TRUE, queue |-> q, item |-> Head(q)]
    ELSE [ok |-> FALSE, queue |-> q, item |-> cur]

\* dequeue(item): ok is the returned bool, item the caller's Item afterwards.
dequeue(q, flag, cur) ==
    IF flag THEN [ok |-> FALSE, queue |-> q, item |-> cur]
    ELSE IF q # <<>> THEN [ok |-> TRUE, queue |-> Tail(q), item |-> Head(q)]
    ELSE [ok |-> FALSE, queue |-> q, item |-> cur]

----------------------------------------------------------------------------
\* size(): the length of the queue.
size(q) == Len(q)

\* COOLProtocol::getAbbreviatedMessage of the item's data.
getAbbreviatedMessage(m) == Message[m].abbr

\* Mutation: the bytes of a message counted as a repeat are left out of the total.
RECURSIVE DumpLoop_SkipsCollapsed(_, _)
DumpLoop_SkipsCollapsed(q, i) ==
    IF i = 0 THEN [lines |-> <<>>, repeats |-> 0, lastStr |-> "", totalSize |-> 0]
    ELSE LET s == DumpLoop_SkipsCollapsed(q, i - 1)
             m == q[i]
             itemStr == getAbbreviatedMessage(m)
             same == s.lastStr = itemStr /\ ~isBinary(m)
             repeats == IF same THEN s.repeats + 1 ELSE 0
             flushed == IF ~same /\ s.repeats > 0
                        THEN Append(s.lines, [kind |-> "repeats", n |-> s.repeats,
                                              binary |-> FALSE, id |-> "", str |-> ""])
                        ELSE s.lines
             listed == IF repeats = 0
                       THEN Append(flushed, [kind |-> "item", n |-> 0,
                                             binary |-> isBinary(m),
                                             id |-> Message[m].id, str |-> itemStr])
                       ELSE flushed
         IN [lines |-> listed, repeats |-> repeats, lastStr |-> itemStr,
             totalSize |-> s.totalSize + (IF same THEN 0 ELSE Message[m].size)]

\* Mutation: binary messages are compared like text ones.
RECURSIVE DumpLoop_CollapsesBinary(_, _)
DumpLoop_CollapsesBinary(q, i) ==
    IF i = 0 THEN [lines |-> <<>>, repeats |-> 0, lastStr |-> "", totalSize |-> 0]
    ELSE LET s == DumpLoop_CollapsesBinary(q, i - 1)
             m == q[i]
             itemStr == getAbbreviatedMessage(m)
             same == s.lastStr = itemStr
             repeats == IF same THEN s.repeats + 1 ELSE 0
             flushed == IF ~same /\ s.repeats > 0
                        THEN Append(s.lines, [kind |-> "repeats", n |-> s.repeats,
                                              binary |-> FALSE, id |-> "", str |-> ""])
                        ELSE s.lines
             listed == IF repeats = 0
                       THEN Append(flushed, [kind |-> "item", n |-> 0,
                                             binary |-> isBinary(m),
                                             id |-> Message[m].id, str |-> itemStr])
                       ELSE flushed
         IN [lines |-> listed, repeats |-> repeats, lastStr |-> itemStr,
             totalSize |-> s.totalSize + Message[m].size]

\* dumpState's loop over the first i items of q: the lines written so far,
\* the repeats pending, the last abbreviated string and the byte total.
RECURSIVE DumpLoop(_, _)
DumpLoop(q, i) ==
    IF i = 0 THEN [lines |-> <<>>, repeats |-> 0, lastStr |-> "", totalSize |-> 0]
    ELSE LET s == DumpLoop(q, i - 1)
             m == q[i]
             itemStr == getAbbreviatedMessage(m)
             same == s.lastStr = itemStr /\ ~isBinary(m)
             repeats == IF same THEN s.repeats + 1 ELSE 0
             flushed == IF ~same /\ s.repeats > 0
                        THEN Append(s.lines, [kind |-> "repeats", n |-> s.repeats,
                                              binary |-> FALSE, id |-> "", str |-> ""])
                        ELSE s.lines
             listed == IF repeats = 0
                       THEN Append(flushed, [kind |-> "item", n |-> 0,
                                             binary |-> isBinary(m),
                                             id |-> Message[m].id, str |-> itemStr])
                       ELSE flushed
         IN [lines |-> listed, repeats |-> repeats, lastStr |-> itemStr,
             totalSize |-> s.totalSize + Message[m].size]

\* Mutation: the repeats pending when the loop ends are not written.
dumpState_NoFinalFlush(q) ==
    LET s == DumpLoop(q, Len(q))
    IN [written |-> TRUE, items |-> Len(q), lines |-> s.lines, bytes |-> s.totalSize]

\* dumpState(os): the report written to the stream.
dumpState(q) ==
    LET s == DumpLoop(q, Len(q))
    IN [written |-> TRUE,
        items |-> Len(q),
        lines |-> IF s.repeats > 0
                  THEN Append(s.lines, [kind |-> "repeats", n |-> s.repeats,
                                        binary |-> FALSE, id |-> "", str |-> ""])
                  ELSE s.lines,
        bytes |-> s.totalSize]

----------------------------------------------------------------------------
Init ==
    /\ queue = <<>>
    /\ hash = [m \in DOMAIN Message |-> NoHash]
    /\ terminationFlag = FALSE
    /\ item = NoItem
    /\ mutex = "free"
    /\ pc = [t \in Threads |-> "idle"]
    /\ arg = [t \in Producers |-> NoItem]
    /\ os = NoReport
    /\ calls = <<>>
    /\ caller = <<>>
    /\ hashSets = <<>>
    /\ qstamp = <<>>
    /\ fate = <<>>
    /\ out = <<>>
    /\ last = [op |-> "none", item |-> NoItem, res |-> "none", ret |-> 0]
    /\ lateCall = [t \in Threads |-> FALSE]
    /\ readLate = [t \in Threads |-> FALSE]

\* The effect of an enqueue(it) of thread t whose outcome is r, with its
\* history.
EnqueueEffect(r, it, t) ==
    LET n == Len(calls) + 1
    IN /\ queue' = r.queue
       /\ hash' = r.hash
       /\ hashSets' = IF r.set THEN Append(hashSets, it) ELSE hashSets
       /\ calls' = Append(calls, it)
       /\ caller' = Append(caller, t)
       /\ qstamp' = IF r.res = "queued" THEN Pushed(qstamp, r.pos, n) ELSE qstamp
       /\ fate' = LET f == IF r.pos = 0 THEN fate
                           ELSE [fate EXCEPT ![qstamp[r.pos]] = "superseded"]
                  IN Append(f, r.res)
       /\ last' = [op |-> "enqueue", item |-> it, res |-> r.res, ret |-> r.ret]

\* The effect of a dequeue(item) whose outcome is r, with its history; g is
\* the same dequeue applied to the stamps.
DequeueEffect(r, g) ==
    /\ queue' = r.queue
    /\ item' = r.item
    /\ qstamp' = g.queue
    /\ out' = IF r.ok
              THEN Append(out, [item |-> r.item, n |-> g.item, at |-> Len(calls)])
              ELSE out
    /\ fate' = IF r.ok THEN [fate EXCEPT ![g.item] = "delivered"] ELSE fate
    /\ last' = [op |-> "dequeue", item |-> r.item,
                res |-> IF r.ok THEN "true" ELSE "false", ret |-> 0]

\* A producer calls enqueue(it) and the call runs to its end.
Enqueue(it) ==
    /\ Len(calls) < MaxCalls
    /\ EnqueueEffect(enqueue(queue, hash, terminationFlag, it), it, "p1")
    /\ UNCHANGED <<terminationFlag, item, out, os>>
    /\ UNCHANGED threadVars

\* The consumer calls dequeue(item) and the call runs to its end.
Dequeue ==
    /\ DequeueEffect(dequeue(queue, terminationFlag, item),
                     dequeue(qstamp, terminationFlag, 0))
    /\ UNCHANGED <<hash, terminationFlag, calls, caller, hashSets, os>>
    /\ UNCHANGED threadVars

\* The process-wide termination flag is set (it is never cleared).
SetTerminationFlag ==
    /\ ~terminationFlag
    /\ terminationFlag' = TRUE
    /\ last' = [op |-> "setTerminationFlag", item |-> NoItem, res |-> "none", ret |-> 0]
    /\ UNCHANGED <<queue, hash, item, calls, caller, hashSets, qstamp, fate, out, os>>
    /\ UNCHANGED threadVars

Next ==
    \/ \E it \in Items : Enqueue(it)
    \/ Dequeue
    \/ SetTerminationFlag

\* One caller at a time: every call runs to its end before the next begins.
Spec == Init /\ [][Next]_vars

\* A caller calls size() and the call runs to its end.
Size ==
    /\ last' = [op |-> "size", item |-> NoItem, res |-> "none", ret |-> size(queue)]
    /\ UNCHANGED <<queue, hash, terminationFlag, item, calls, caller, hashSets, qstamp, fate, out, os>>
    /\ UNCHANGED threadVars

\* A caller calls dumpState(os) and the call runs to its end.
DumpState ==
    /\ os' = dumpState(queue)
    /\ last' = [op |-> "dumpState", item |-> NoItem, res |-> "none", ret |-> 0]
    /\ UNCHANGED <<queue, hash, terminationFlag, item, calls, caller, hashSets, qstamp, fate, out>>
    /\ UNCHANGED threadVars

NextDiag ==
    \/ \E it \in DumpItems : Enqueue(it)
    \/ Dequeue
    \/ SetTerminationFlag
    \/ Size
    \/ DumpState

\* One caller at a time, with the diagnostic operations among the calls.
SpecDiag == Init /\ [][NextDiag]_vars

----------------------------------------------------------------------------
(* The threaded specification: producers and the writer run concurrently,  *)
(* one step per statement that reads or writes what threads share.         *)

EnqueuePcs == {"enq_lock", "enq_check", "enq_body", "enq_push"}

\* Thread t returns to its caller, releasing the lock it holds (the
\* destructor of its unique_lock or lock_guard), also when it is an exception
\* that leaves the call.
Return(t) ==
    /\ pc' = [pc EXCEPT ![t] = "idle"]
    /\ mutex' = IF mutex = t THEN "free" ELSE mutex
    /\ arg' = IF t \in Producers THEN [arg EXCEPT ![t] = NoItem] ELSE arg
    /\ lateCall' = [lateCall EXCEPT ![t] = FALSE]
    /\ readLate' = [readLate EXCEPT ![t] = FALSE]

\* Thread t goes on to the next statement of its call.
Goto(t, where) == pc' = [pc EXCEPT ![t] = where]

\* Mutation: the lock is taken whether or not another thread holds it.
Lock_NoWait(t, from, to) ==
    /\ pc[t] = from
    /\ mutex' = t
    /\ Goto(t, to)
    /\ UNCHANGED <<queue, hash, terminationFlag, item, arg, os,
                   calls, caller, hashSets, qstamp, fate, out, last, lateCall, readLate>>

\* std::unique_lock / std::lock_guard constructor: t takes the free mutex.
Lock(t, from, to) ==
    /\ pc[t] = from
    /\ mutex = "free"
    /\ mutex' = t
    /\ Goto(t, to)
    /\ UNCHANGED <<queue, hash, terminationFlag, item, arg, os,
                   calls, caller, hashSets, qstamp, fate, out, last, lateCall, readLate>>

\* Fewer than max enqueue calls were made, those in progress included.
CallsBelow(max) ==
    Len(calls) + Cardinality({u \in Producers : pc[u] \in EnqueuePcs}) < max

\* Mutation: the hash of a tile: message is set when the call begins, before
\* the lock is taken.
EnqueueCall_HashesEarly(t, it) ==
    /\ pc[t] = "idle"
    /\ Goto(t, "enq_lock")
    /\ arg' = [arg EXCEPT ![t] = it]
    /\ lateCall' = [lateCall EXCEPT ![t] = terminationFlag]
    /\ hash' = IF firstToken(it) = "tile:" /\ ParseOk(firstLine(it))
               THEN [hash EXCEPT ![it] = equalityHash(TileDesc_parse(firstLine(it)))]
               ELSE hash
    /\ UNCHANGED <<queue, terminationFlag, item, mutex, os,
                   calls, caller, hashSets, qstamp, fate, out, last, readLate>>

\* Producer t calls enqueue(it).
EnqueueCall(t, it) ==
    /\ pc[t] = "idle"
    /\ Goto(t, "enq_lock")
    /\ arg' = [arg EXCEPT ![t] = it]
    /\ lateCall' = [lateCall EXCEPT ![t] = terminationFlag]
    /\ UNCHANGED <<queue, hash, terminationFlag, item, mutex, os,
                   calls, caller, hashSets, qstamp, fate, out, last, readLate>>

\* Mutation: enqueue goes on without waiting for the mutex.
EnqueueLock_NoWait(t) == t \in Producers /\ Lock_NoWait(t, "enq_lock", "enq_check")

\* Line 35: enqueue takes the lock.
EnqueueLock(t) == t \in Producers /\ Lock(t, "enq_lock", "enq_check")

\* Mutation: the termination flag is not consulted under the lock.
EnqueueCheck_NoFlag(t) ==
    /\ pc[t] = "enq_check"
    /\ Goto(t, "enq_body")
    /\ readLate' = [readLate EXCEPT ![t] = terminationFlag]
    /\ UNCHANGED <<queue, hash, calls, caller, hashSets, qstamp, fate, last, mutex, arg, lateCall>>
    /\ UNCHANGED <<terminationFlag, item, out, os>>

\* Line 37, left operand: enqueue reads the termination flag, holding the
\* lock; when it is set the call returns the size (line 40).
EnqueueCheck(t) ==
    /\ pc[t] = "enq_check"
    /\ LET r == enqueue(queue, hash, terminationFlag, arg[t])
       IN IF r.res = "dropped"
          THEN /\ EnqueueEffect(r, arg[t], t)
               /\ Return(t)
          ELSE /\ Goto(t, "enq_body")
               /\ readLate' = [readLate EXCEPT ![t] = terminationFlag]
               /\ UNCHANGED <<queue, hash, calls, caller, hashSets, qstamp, fate, last,
                              mutex, arg, lateCall>>
    /\ UNCHANGED <<terminationFlag, item, out, os>>

\* Lines 37-38 after the flag was read as clear: deduplicate erases the
\* message the new one supersedes, if any; an exception that leaves it ends
\* the call and releases the lock.
EnqueueDedup(t) ==
    /\ pc[t] = "enq_body"
    /\ LET d == deduplicate(queue, hash, arg[t])
       IN IF d.threw
          THEN /\ EnqueueEffect([res |-> "threw", queue |-> queue, hash |-> d.hash, set |-> d.set,
                                 pos |-> 0, ret |-> 0], arg[t], t)
               /\ Return(t)
          ELSE /\ queue' = Erase(queue, d.pos)
               /\ qstamp' = Erase(qstamp, d.pos)
               /\ hash' = d.hash
               /\ fate' = IF d.pos = 0 THEN fate
                          ELSE [fate EXCEPT ![qstamp[d.pos]] = "superseded"]
               /\ Goto(t, "enq_push")
               /\ hashSets' = IF d.set THEN Append(hashSets, arg[t]) ELSE hashSets
               /\ UNCHANGED <<calls, caller, last, mutex, arg, lateCall, readLate>>
    /\ UNCHANGED <<terminationFlag, item, out, os>>

\* Lines 39-40: push_back, the size is returned and the lock is released.
EnqueuePush(t) ==
    /\ pc[t] = "enq_push"
    /\ LET q == Pushed(queue, 0, arg[t])
       IN EnqueueEffect([res |-> "queued", queue |-> q, hash |-> hash, set |-> FALSE,
                         pos |-> 0, ret |-> size(q)], arg[t], t)
    /\ Return(t)
    /\ UNCHANGED <<terminationFlag, item, out, os>>

\* Mutation: dequeue goes for the lock without reading the termination flag.
DequeueCheck_NoFlag(t) ==
    /\ t \in Consumers
    /\ pc[t] = "idle"
    /\ Goto(t, "deq_lock")
    /\ lateCall' = [lateCall EXCEPT ![t] = terminationFlag]
    /\ readLate' = [readLate EXCEPT ![t] = terminationFlag]
    /\ UNCHANGED <<queue, item, qstamp, out, fate, last>>
    /\ UNCHANGED <<hash, terminationFlag, mutex, arg, os, calls, caller, hashSets>>

\* Consumer t calls dequeue(item); line 47: it reads the termination flag,
\* without the lock, and returns false when it is set.
DequeueCheck(t) ==
    /\ t \in Consumers
    /\ pc[t] = "idle"
    /\ IF terminationFlag
       THEN /\ DequeueEffect(dequeue(queue, TRUE, item), dequeue(qstamp, TRUE, 0))
            /\ UNCHANGED <<pc, lateCall, readLate>>
       ELSE /\ Goto(t, "deq_lock")
            /\ lateCall' = [lateCall EXCEPT ![t] = terminationFlag]
            /\ readLate' = [readLate EXCEPT ![t] = terminationFlag]
            /\ UNCHANGED <<queue, item, qstamp, out, fate, last>>
    /\ UNCHANGED <<hash, terminationFlag, mutex, arg, os, calls, caller, hashSets>>

\* Line 53: dequeue takes the lock.
DequeueLock(t) == t \in Consumers /\ Lock(t, "deq_lock", "deq_body")

\* Mutation: dequeue waits, holding the lock, until the queue has an item.
DequeueBody_Waits(t) ==
    /\ pc[t] = "deq_body"
    /\ queue # <<>>
    /\ DequeueEffect(dequeue(queue, FALSE, item), dequeue(qstamp, FALSE, 0))
    /\ Return(t)
    /\ UNCHANGED <<hash, terminationFlag, os, calls, caller, hashSets>>

\* Mutation: dequeue returns false without looking at the queue.
DequeueBody_NeverPops(t) ==
    /\ pc[t] = "deq_body"
    /\ last' = [op |-> "dequeue", item |-> item, res |-> "false", ret |-> 0]
    /\ Return(t)
    /\ UNCHANGED <<queue, item, qstamp, out, fate>>
    /\ UNCHANGED <<hash, terminationFlag, os, calls, caller, hashSets>>

\* Lines 55-62: the head is popped if there is one, and the lock is released.
DequeueBody(t) ==
    /\ pc[t] = "deq_body"
    /\ DequeueEffect(dequeue(queue, FALSE, item), dequeue(qstamp, FALSE, 0))
    /\ Return(t)
    /\ UNCHANGED <<hash, terminationFlag, os, calls, caller, hashSets>>

\* Thread t calls size().
SizeCall(t) ==
    /\ t \in Consumers
    /\ pc[t] = "idle"
    /\ Goto(t, "size_lock")
    /\ lateCall' = [lateCall EXCEPT ![t] = terminationFlag]
    /\ UNCHANGED <<queue, hash, terminationFlag, item, mutex, arg, os,
                   calls, caller, hashSets, qstamp, fate, out, last, readLate>>

\* Line 67: size takes the lock.
SizeLock(t) == t \in Consumers /\ Lock(t, "size_lock", "size_body")

\* Mutation: size reports an empty queue once the termination flag is set.
SizeBody_ZeroAfterFlag(t) ==
    /\ pc[t] = "size_body"
    /\ last' = [op |-> "size", item |-> NoItem, res |-> "none",
                ret |-> IF terminationFlag THEN 0 ELSE size(queue)]
    /\ Return(t)
    /\ UNCHANGED <<queue, hash, terminationFlag, item, os, calls, caller, hashSets, qstamp, fate, out>>

\* Line 68: size returns the length, and the lock is released.
SizeBody(t) ==
    /\ pc[t] = "size_body"
    /\ last' = [op |-> "size", item |-> NoItem, res |-> "none", ret |-> size(queue)]
    /\ Return(t)
    /\ UNCHANGED <<queue, hash, terminationFlag, item, os, calls, caller, hashSets, qstamp, fate, out>>

\* Thread t calls dumpState(os).
DumpCall(t) ==
    /\ t \in Consumers
    /\ pc[t] = "idle"
    /\ Goto(t, "dump_lock")
    /\ lateCall' = [lateCall EXCEPT ![t] = terminationFlag]
    /\ UNCHANGED <<queue, hash, terminationFlag, item, mutex, arg, os,
                   calls, caller, hashSets, qstamp, fate, out, last, readLate>>

\* Line 73: dumpState takes the lock.
DumpLock(t) == t \in Consumers /\ Lock(t, "dump_lock", "dump_body")

\* Mutation: dumpState forgets the cached hash of every message it lists.
DumpBody_ForgetsHashes(t) ==
    /\ pc[t] = "dump_body"
    /\ os' = dumpState(queue)
    /\ hash' = [m \in DOMAIN hash |->
                   IF \E k \in DOMAIN queue : queue[k] = m THEN NoHash ELSE hash[m]]
    /\ last' = [op |-> "dumpState", item |-> NoItem, res |-> "none", ret |-> 0]
    /\ Return(t)
    /\ UNCHANGED <<queue, terminationFlag, item, calls, caller, hashSets, qstamp, fate, out>>

\* Lines 74-102: dumpState writes its report, and the lock is released.
DumpBody(t) ==
    /\ pc[t] = "dump_body"
    /\ os' = dumpState(queue)
    /\ last' = [op |-> "dumpState", item |-> NoItem, res |-> "none", ret |-> 0]
    /\ Return(t)
    /\ UNCHANGED <<queue, hash, terminationFlag, item, calls, caller, hashSets, qstamp, fate, out>>

\* A step of t that takes the mutex.
LockStep(t) == EnqueueLock(t) \/ DequeueLock(t) \/ SizeLock(t) \/ DumpLock(t)

\* A step of t that waits for nothing.
RunStep(t) ==
    \/ EnqueueCheck(t) \/ EnqueueDedup(t) \/ EnqueuePush(t)
    \/ DequeueBody(t) \/ SizeBody(t) \/ DumpBody(t)

\* The steps of the threads when producers enqueue the Messages of S.
ThreadsNext(S) ==
    \/ \E t \in Producers : \E it \in S : CallsBelow(MaxConcCalls) /\ EnqueueCall(t, it)
    \/ \E t \in Threads : EnqueueLock(t)
    \/ \E t \in Threads : EnqueueCheck(t)
    \/ \E t \in Threads : EnqueueDedup(t)
    \/ \E t \in Threads : EnqueuePush(t)
    \/ \E t \in Threads : DequeueCheck(t)
    \/ \E t \in Threads : DequeueLock(t)
    \/ \E t \in Threads : DequeueBody(t)
    \/ \E t \in Threads : SizeCall(t)
    \/ \E t \in Threads : SizeLock(t)
    \/ \E t \in Threads : SizeBody(t)
    \/ \E t \in Threads : DumpCall(t)
    \/ \E t \in Threads : DumpLock(t)
    \/ \E t \in Threads : DumpBody(t)
    \/ SetTerminationFlag

NextConc == ThreadsNext(ConcItems)

NextLive == ThreadsNext(LiveItems)

\* Fair scheduling: a thread that can run its next statement does so
\* (weak fairness), and a thread that waits for the mutex gets it if the
\* mutex is free again and again (strong fairness).  No thread has to call.
Fairness ==
    \A t \in Threads : WF_vars(RunStep(t)) /\ SF_vars(LockStep(t))

SpecConc == Init /\ [][NextConc]_vars /\ Fairness

\* The same threads with fewer Messages: whether a call returns depends on the
\* Message only through the way the call ends (by a return or by an exception).
SpecLive == Init /\ [][NextLive]_vars /\ Fairness

\* Producers that enqueue and a consumer that only dequeues: the flow of the
\* messages through the queue.
NextFlow ==
    \/ \E t \in Producers : \E it \in FlowItems : CallsBelow(MaxFlowCalls) /\ EnqueueCall(t, it)
    \/ \E t \in Threads : EnqueueLock(t)
    \/ \E t \in Threads : EnqueueCheck(t)
    \/ \E t \in Threads : EnqueueDedup(t)
    \/ \E t \in Threads : EnqueuePush(t)
    \/ \E t \in Threads : DequeueCheck(t)
    \/ \E t \in Threads : DequeueLock(t)
    \/ \E t \in Threads : DequeueBody(t)
    \/ SetTerminationFlag

SpecFlow == Init /\ [][NextFlow]_vars /\ Fairness

----------------------------------------------------------------------------
(* The dedup rules as the design states them, over Messages *)

IsTile(m) == firstToken(m) = "tile:" /\ ParseOk(firstLine(m))

\* Two tile: messages name the same tile.
TileEq(a, b) ==
    /\ IsTile(a) /\ IsTile(b)
    /\ TileDesc_parse(firstLine(a)) = TileDesc_parse(firstLine(b))

IsView(m) == firstToken(m) = "invalidateviewcursor:" /\ JsonOk(jsonString(m))

ViewEq(a, b) ==
    IsView(a) /\ IsView(b) /\ viewIdOf(jsonString(a)) = viewIdOf(jsonString(b))

IsMarkerProgress(m) == firstToken(m) = "progress:" /\ contains(m, setvalueTag)

IsMarkerFreeProgress(m) == firstToken(m) = "progress:" /\ ~contains(m, setvalueTag)

ReplaceTokens == {"invalidatecursor:", "setpart:"}

DedupTokens ==
    {"tile:", "invalidatecursor:", "setpart:", "progress:", "invalidateviewcursor:"}

\* b supersedes a (and a supersedes b) under some dedup rule.
Interacts(a, b) ==
    \/ TileEq(a, b)
    \/ firstToken(a) = firstToken(b) /\ firstToken(a) \in ReplaceTokens
    \/ IsMarkerProgress(a) /\ IsMarkerProgress(b)
    \/ ViewEq(a, b)

\* The producer contract: tile: and invalidateviewcursor: payloads parse.
WellFormed(m) ==
    /\ firstToken(m) = "tile:" => ParseOk(firstLine(m))
    /\ firstToken(m) = "invalidateviewcursor:" => JsonOk(jsonString(m))

Plain(m) == firstToken(m) \notin DedupTokens

Without(q, k) == SubSeq(q, 1, k - 1) \o SubSeq(q, k + 1, Len(q))

IsPrefix(a, b) == Len(a) <= Len(b) /\ SubSeq(b, 1, Len(a)) = a

\* This step is a call enqueue(it).
EnqueueStep(it) == calls' = Append(calls, it)

\* The index of the latest enqueue call whose message satisfies a test.
LatestCall(Test(_)) ==
    CHOOSE i \in DOMAIN calls :
        Test(calls[i]) /\ \A j \in DOMAIN calls : Test(calls[j]) => j <= i

\* The messages of the enqueue calls that returned (no exception left them),
\* in call order.
ReturnedCalls ==
    LET F[i \in 0..Len(calls)] ==
            IF i = 0 THEN <<>>
            ELSE IF fate[i] = "threw" THEN F[i - 1]
            ELSE Append(F[i - 1], calls[i])
    IN F[Len(calls)]

----------------------------------------------------------------------------
\* C1: when every enqueued payload is well-formed, no two queued messages are
\* equal under a dedup rule: at most one tile: message per tile descriptor, one
\* invalidatecursor:, one setpart:, one progress: with the setvalue marker and
\* one invalidateviewcursor: per viewId.
C1_NoTwoEqualQueued ==
    (\A c \in DOMAIN calls : WellFormed(calls[c])) =>
        \A i, j \in DOMAIN queue : i < j => ~Interacts(queue[i], queue[j])

C1_Witness ==
    /\ \A c \in DOMAIN calls : WellFormed(calls[c])
    /\ Len(queue) >= 2
    /\ \E s \in DOMAIN fate : fate[s] = "superseded"

\* C2: FIFO baseline.  With the termination flag clear and enqueue calls whose
\* messages do not match one another under any dedup rule, the messages
\* dequeue returned so far followed by the messages still queued are exactly
\* the messages of the enqueue calls that returned, in call order.
C2_FifoBaseline ==
    ( /\ ~terminationFlag
      /\ \A c, d \in DOMAIN calls : c # d => ~Interacts(calls[c], calls[d]) )
    => [i \in DOMAIN out |-> out[i].item] \o queue = ReturnedCalls

C2_Witness ==
    /\ ~terminationFlag
    /\ \A c, d \in DOMAIN calls : c # d => ~Interacts(calls[c], calls[d])
    /\ Len(ReturnedCalls) >= 3 /\ Len(out) >= 2 /\ Len(queue) >= 1
    /\ out[1].item # out[2].item

\* C3: no stale delivery.  A dequeue never returns the entry of a tile: enqueue
\* when, before that dequeue started, a later enqueue of a tile: message with
\* an equal descriptor had completed.
C3_NoStaleTile ==
    \A i \in DOMAIN out :
        \A t \in 1..out[i].at :
            t > out[i].n => ~TileEq(calls[out[i].n], calls[t])

C3_Witness ==
    \E i \in DOMAIN out :
        \E s \in 1..(out[i].n - 1) :
            /\ TileEq(calls[s], calls[out[i].n])
            /\ calls[s] # calls[out[i].n]
            /\ fate[s] = "superseded"

\* C4: tile supersession.  Enqueuing a tile: message B while the queue holds a
\* tile: message with an equal descriptor leaves exactly one message of that
\* descriptor in the queue, B itself, as the last element.
C4_TileSupersession ==
    [][\A it \in Items :
         ( /\ EnqueueStep(it)
           /\ ~terminationFlag
           /\ \E k \in DOMAIN queue : TileEq(queue[k], it) )
         => /\ queue' # <<>>
            /\ queue'[Len(queue')] = it
            /\ \A k \in DOMAIN queue' : TileEq(queue'[k], it) => k = Len(queue')
      ]_vars

C4_Witness ==
    /\ last.op = "enqueue" /\ last.res = "queued"
    /\ Len(queue) >= 2
    /\ \E s \in DOMAIN fate :
        /\ fate[s] = "superseded"
        /\ TileEq(calls[s], last.item)
        /\ calls[s] # last.item

\* C5: tile non-interference.  Enqueuing a tile: message whose descriptor
\* differs from that of every queued tile: message removes nothing, also when
\* its hash equals the cached hash of a queued tile: message.
C5_TileNonInterference ==
    [][\A it \in Items :
         ( /\ EnqueueStep(it)
           /\ ~terminationFlag
           /\ IsTile(it)
           /\ \A k \in DOMAIN queue : ~TileEq(queue[k], it) )
         => queue' = Append(queue, it)
      ]_vars

C5_Witness ==
    /\ last.op = "enqueue" /\ last.res = "queued"
    /\ \E k \in 1..(Len(queue) - 1) :
        /\ IsTile(queue[k]) /\ IsTile(last.item)
        /\ queue[Len(queue)] = last.item
        /\ hash[queue[k]] = hash[last.item]
        /\ ~TileEq(queue[k], last.item)

\* C6: survivor position.  Under every dedup rule, an enqueue (termination flag
\* clear) that supersedes a queued message leaves the previous queue with that
\* message deleted, the others in their order, and the new message last.
C6_SurvivorAtTail ==
    [][\A it \in Items :
         ( /\ EnqueueStep(it)
           /\ ~terminationFlag
           /\ \E k \in DOMAIN queue : Interacts(queue[k], it) )
         => \E k \in DOMAIN queue :
               /\ Interacts(queue[k], it)
               /\ queue' = Append(Without(queue, k), it)
      ]_vars

C6_Witness ==
    /\ last.op = "enqueue" /\ last.res = "queued"
    /\ Len(queue) >= 2
    /\ \E s \in DOMAIN fate :
        /\ fate[s] = "superseded"
        /\ Interacts(calls[s], last.item)
        /\ qstamp[1] > s

\* C7: cursor/part replace-latest.  After enqueues and no dequeue, for each of
\* invalidatecursor: and setpart: that was enqueued the queue holds exactly one
\* entry of that token, the one enqueued last, and every message of no dedup
\* token is still queued in enqueue order.
C7_ReplaceLatest ==
    (~terminationFlag /\ out = <<>>) =>
        /\ \A tok \in ReplaceTokens :
             LET Is(m) == firstToken(m) = tok
             IN (\E c \in DOMAIN calls : Is(calls[c])) =>
                   \E k \in DOMAIN queue :
                       /\ Is(queue[k])
                       /\ qstamp[k] = LatestCall(Is)
                       /\ \A j \in DOMAIN queue : Is(queue[j]) => j = k
        /\ SelectSeq(queue, Plain) = SelectSeq(calls, Plain)

C7_Witness ==
    /\ ~terminationFlag /\ out = <<>>
    /\ Len(calls) = 3
    /\ firstToken(calls[1]) = "invalidatecursor:"
    /\ Plain(calls[2])
    /\ firstToken(calls[3]) = "invalidatecursor:"
    /\ queue = <<calls[2], calls[3]>>
    /\ qstamp = <<2, 3>>

\* C8: progress marker specificity.  No enqueue removes a progress: message
\* without the setvalue marker; enqueuing one removes nothing; enqueuing a
\* progress: message with the marker removes at most a queued progress:
\* message with the marker.  Enqueuing marker, marker-free, marker leaves the
\* marker-free message and the newest marker message.
C8_ProgressStep ==
    \A it \in Items :
        (EnqueueStep(it) /\ ~terminationFlag) =>
            /\ IsPrefix(SelectSeq(queue, IsMarkerFreeProgress),
                        SelectSeq(queue', IsMarkerFreeProgress))
            /\ IsMarkerFreeProgress(it) => queue' = Append(queue, it)
            /\ IsMarkerProgress(it) =>
                  \/ queue' = Append(queue, it)
                  \/ \E k \in DOMAIN queue :
                        /\ IsMarkerProgress(queue[k])
                        /\ queue' = Append(Without(queue, k), it)

C8_ProgressScenario ==
    ( /\ ~terminationFlag /\ out = <<>>
      /\ Len(calls) = 3
      /\ IsMarkerProgress(calls[1])
      /\ IsMarkerFreeProgress(calls[2])
      /\ IsMarkerProgress(calls[3]) )
    => (queue = <<calls[2], calls[3]>> /\ qstamp = <<2, 3>>)

C8_ProgressMarker == [][C8_ProgressStep]_vars /\ []C8_ProgressScenario

C8_Witness ==
    /\ ~terminationFlag /\ out = <<>>
    /\ Len(calls) = 3
    /\ IsMarkerProgress(calls[1])
    /\ IsMarkerFreeProgress(calls[2])
    /\ IsMarkerProgress(calls[3])
    /\ Len(queue) = 2

\* C9: view-cursor isolation.  Enqueuing an invalidateviewcursor: message for
\* view v removes at most a queued invalidateviewcursor: message of view v.
\* After such enqueues only and no dequeue, the queue holds one entry per view
\* enqueued, the latest of that view.
C9_ViewStep ==
    \A it \in Items :
        (EnqueueStep(it) /\ ~terminationFlag /\ IsView(it)) =>
            \/ queue' = Append(queue, it)
            \/ \E k \in DOMAIN queue :
                  /\ ViewEq(queue[k], it)
                  /\ queue' = Append(Without(queue, k), it)

C9_ViewScenario ==
    ( /\ ~terminationFlag /\ out = <<>>
      /\ \A c \in DOMAIN calls : IsView(calls[c]) )
    => /\ \A c \in DOMAIN calls :
            LET Same(m) == ViewEq(m, calls[c])
            IN \E k \in DOMAIN queue :
                  /\ Same(queue[k])
                  /\ qstamp[k] = LatestCall(Same)
                  /\ \A j \in DOMAIN queue : Same(queue[j]) => j = k
       /\ Len(queue) = Cardinality({viewIdOf(jsonString(calls[c])) : c \in DOMAIN calls})

C9_ViewIsolation == [][C9_ViewStep]_vars /\ []C9_ViewScenario

C9_Witness ==
    /\ ~terminationFlag /\ out = <<>>
    /\ Len(calls) = 3
    /\ \A c \in DOMAIN calls : IsView(calls[c])
    /\ ViewEq(calls[1], calls[3])
    /\ ~ViewEq(calls[1], calls[2])
    /\ queue = <<calls[2], calls[3]>>

\* C10: shutdown idempotence.  Once the termination flag is set, an enqueue
\* leaves the queue (and so size()) unchanged and returns that size, and a
\* dequeue returns 'no message' and leaves the queue unchanged.
C10_ShutdownIdempotence ==
    [][terminationFlag =>
         /\ queue' = queue
         /\ last'.op = "enqueue" => last'.ret = Len(queue)
         /\ last'.op = "dequeue" => last'.res = "false" /\ item' = item
      ]_vars

C10_Witness ==
    /\ terminationFlag
    /\ queue # <<>>
    /\ last.op = "dequeue" /\ last.res = "false"
    /\ \E s \in DOMAIN fate : fate[s] = "dropped"

----------------------------------------------------------------------------
(* Threads, as the claims speak of them *)

LockPcs == {"enq_lock", "deq_lock", "size_lock", "dump_lock"}

HeldPcs ==
    {"enq_check", "enq_body", "enq_push", "deq_body", "size_body", "dump_body"}

\* C11, as claimed: in no step taken once the termination flag is set is a
\* message appended to, removed from or returned out of the queue, calls in
\* progress included.
C11_NothingAfterFlag ==
    [][terminationFlag => (queue' = queue /\ out' = out)]_vars

\* C11, amended: once the termination flag is set, a step changes the queue or
\* returns a message only if it ends a call that read the flag while it was
\* still clear (enqueue under the lock, dequeue before taking the lock); a call
\* that reads the flag after it was set appends, removes and returns nothing.
C11_OnlyEarlierReaders ==
    [][(terminationFlag /\ (queue' # queue \/ out' # out)) =>
          \E t \in Threads :
              /\ pc[t] \in {"enq_body", "enq_push", "deq_body"}
              /\ pc'[t] # pc[t]
              /\ ~readLate[t]
      ]_vars

C11_Witness ==
    /\ terminationFlag
    /\ last.op = "enqueue" /\ last.res = "dropped"
    /\ queue # <<>>
    /\ pc["c1"] = "deq_body"

\* C12: an enqueue whose tile: first line or invalidateviewcursor: payload
\* does not parse removes no queued message: the queue before the call is a
\* prefix of the queue after it.
C12_MalformedRemovesNothing ==
    [][\A it \in Items :
          (EnqueueStep(it) /\ ~WellFormed(it)) => IsPrefix(queue, queue')
      ]_vars

C12_Witness ==
    /\ last.op = "enqueue"
    /\ last.item \in Items /\ ~WellFormed(last.item)
    /\ Len(queue) >= 2
    /\ \E k \in DOMAIN queue : firstToken(queue[k]) = firstToken(last.item)

\* C13: with the termination flag clear, an enqueue whose tile: or
\* invalidateviewcursor: payload does not parse appends the message: the
\* queue afterwards is the queue before followed by that message.
C13_MalformedAppended ==
    [][\A it \in Items :
          (EnqueueStep(it) /\ ~terminationFlag /\ ~WellFormed(it)) =>
              queue' = Append(queue, it)
      ]_vars

\* C14: every enqueue call returns a length; none ends in an exception.
C14_NoFailureOutcome ==
    /\ \A i \in DOMAIN fate : fate[i] # "threw"
    /\ last.op = "enqueue" => last.res \in {"queued", "dropped"}

\* C15: with the termination flag clear, an enqueue that returns gives the
\* length of the queue right after its push_back: the previous length plus
\* one when nothing was superseded, the previous length when one message was,
\* and never less than 1.
C15_ReturnedLength ==
    [][\A it \in Items :
          (EnqueueStep(it) /\ ~terminationFlag /\ last'.res = "queued") =>
              /\ last'.ret = Len(queue')
              /\ last'.ret >= 1
              /\ \/ queue' = Append(queue, it) /\ last'.ret = Len(queue) + 1
                 \/ \E k \in DOMAIN queue :
                        /\ queue' = Append(Without(queue, k), it)
                        /\ last'.ret = Len(queue)
      ]_vars

C15_Witness ==
    /\ ~terminationFlag
    /\ out = <<>>
    /\ Len(calls) = 3
    /\ fate[1] = "superseded" /\ fate[2] = "queued"
    /\ ~Interacts(calls[2], calls[1])
    /\ last.op = "enqueue" /\ last.res = "queued" /\ last.ret = 2
    /\ Len(queue) = 2

\* C16: with the termination flag clear, dequeue on a non-empty queue returns
\* true with the head and leaves the rest of the queue in order; on an empty
\* queue it returns false, the queue stays empty and the caller's Item keeps
\* its value.
C16_DequeueStep ==
    [][(last'.op = "dequeue" /\ ~terminationFlag) =>
          IF queue # <<>>
          THEN /\ last'.res = "true"
               /\ item' = Head(queue)
               /\ queue' = Tail(queue)
               /\ out' = Append(out, [item |-> Head(queue), n |-> Head(qstamp),
                                      at |-> Len(calls)])
          ELSE /\ last'.res = "false"
               /\ queue' = <<>>
               /\ item' = item
               /\ out' = out
      ]_vars

C16_Witness ==
    /\ ~terminationFlag
    /\ last.op = "dequeue" /\ last.res = "false"
    /\ queue = <<>>
    /\ item # NoItem
    /\ \E i \in DOMAIN fate : fate[i] = "queued" \/ fate[i] = "delivered"

\* C18: an enqueue called while the termination flag is set never takes the
\* queue's mutex and never waits for a thread that holds it.
C18_DropWithoutLock ==
    \A t \in Producers :
        (lateCall[t] /\ pc[t] \in EnqueuePcs) =>
            /\ mutex # t
            /\ ~(pc[t] = "enq_lock" /\ mutex # "free")

\* C19: a dequeue called while the termination flag is set returns 'false' in
\* its first step, whoever holds the mutex, and is never found waiting for the
\* mutex or holding it.
DequeueReturnsAtOnce(t) ==
    /\ DequeueCheck(t)
    /\ pc'[t] = "idle"
    /\ mutex' = mutex
    /\ queue' = queue
    /\ last'.op = "dequeue" /\ last'.res = "false"

C19_DequeueWithoutLock ==
    \A t \in Consumers :
        /\ pc[t] \in {"deq_lock", "deq_body"} => ~readLate[t]
        /\ (terminationFlag /\ pc[t] = "idle") => ENABLED DequeueReturnsAtOnce(t)

C19_Witness ==
    /\ terminationFlag
    /\ last.op = "dequeue" /\ last.res = "false"
    /\ mutex \in Producers
    /\ queue # <<>>

\* C17: non-blocking operations.  Under fair scheduling every operation a
\* thread has invoked returns; a thread past its lock always has a step to
\* take, whatever the queue holds, and a thread that waits does so for the
\* mutex and its holder only; dequeue on an empty queue returns 'false' and
\* leaves the queue empty.
C17_Returns == \A t \in Threads : (pc[t] # "idle") ~> (pc[t] = "idle")

C17_NoWaitOnContents ==
    \A t \in Threads :
        /\ pc[t] \in HeldPcs => (mutex = t /\ ENABLED RunStep(t))
        /\ pc[t] \in LockPcs =>
              \/ mutex = "free" /\ ENABLED LockStep(t)
              \/ mutex \in Threads \ {t} /\ pc[mutex] \in HeldPcs

C17_EmptyDequeue ==
    \A t \in Consumers :
        (pc[t] = "deq_body" /\ pc'[t] = "idle" /\ queue = <<>>) =>
            (last'.op = "dequeue" /\ last'.res = "false" /\ queue' = <<>>)

Appended(i) == fate[i] \notin {"dropped", "threw"}

C20_ArrivalOrder ==
    /\ Len(qstamp) = Len(queue)
    /\ \A k \in DOMAIN queue :
          /\ qstamp[k] \in DOMAIN calls
          /\ Appended(qstamp[k])
          /\ queue[k] = calls[qstamp[k]]
    /\ \A k, l \in DOMAIN queue : k < l => qstamp[k] < qstamp[l]
    /\ \A i \in DOMAIN calls :
          (Appended(i) /\ \A k \in DOMAIN qstamp : qstamp[k] # i) =>
              \/ \E o \in DOMAIN out : out[o].n = i /\ out[o].item = calls[i]
              \/ \E j \in DOMAIN calls :
                    j > i /\ Appended(j) /\ Interacts(calls[j], calls[i])

C20_Witness ==
    /\ Len(queue) >= 1
    /\ \E i \in DOMAIN fate : fate[i] = "superseded"
    /\ \E j \in DOMAIN fate : fate[j] = "delivered"

\* C21: a thread is inside a locked section exactly when it holds the mutex,
\* so no two threads are inside one together; the queue changes only in a
\* step of the thread that holds the mutex; and between an enqueue's erase and
\* its push_back no other thread changes the queue, dequeues from it, writes a
\* report of it or returns its size.
C21_HolderOnly ==
    /\ \A t \in Threads : pc[t] \in HeldPcs <=> mutex = t
    /\ \A t, u \in Threads : (pc[t] \in HeldPcs /\ pc[u] \in HeldPcs) => t = u

C21_Atomic ==
    /\ queue' # queue =>
          \E t \in Threads : mutex = t /\ pc[t] \in HeldPcs /\ pc'[t] # pc[t]
    /\ \A t \in Producers :
          (pc[t] = "enq_push" /\ pc'[t] = "enq_push") =>
              /\ queue' = queue /\ os' = os /\ out' = out
              /\ last' # last => (last'.op # "size" /\ last'.res \in {"false", "none"})

C21_MutualExclusion == []C21_HolderOnly /\ [][C21_Atomic]_vars

C21_Witness ==
    /\ \E t \in Producers : pc[t] = "enq_push"
    /\ \E i \in DOMAIN fate : fate[i] = "superseded"
    /\ queue = <<>>
    /\ pc["c1"] \in LockPcs

\* C22: size() returns the length of the queue it finds under the lock and
\* changes nothing of the queue; it is called and completed whether or not
\* the termination flag is set.
C22_SizeStep ==
    \A t \in Consumers :
        (pc[t] = "size_body" /\ pc'[t] # pc[t]) =>
            /\ last'.op = "size" /\ last'.ret = Len(queue)
            /\ queue' = queue /\ hash' = hash /\ out' = out /\ item' = item

C22_SizeIgnoresFlag ==
    \A t \in Consumers :
        /\ pc[t] = "idle" => ENABLED SizeCall(t)
        /\ pc[t] = "size_body" => (mutex = t /\ ENABLED SizeBody(t))

C22_Size == [][C22_SizeStep]_vars /\ []C22_SizeIgnoresFlag

C22_Witness ==
    /\ terminationFlag
    /\ last.op = "size" /\ last.ret = 2
    /\ Len(queue) = 2

\* C23: dumpState changes neither the queue nor any cached hash, and from the
\* moment it holds the lock until it returns no other thread changes them.
C23_DumpStep ==
    \A t \in Consumers :
        /\ (pc[t] = "dump_body" /\ pc'[t] # pc[t]) =>
              /\ os' = dumpState(queue)
              /\ queue' = queue /\ hash' = hash /\ out' = out /\ item' = item
        /\ (pc[t] = "dump_body" /\ pc'[t] = "dump_body") =>
              (queue' = queue /\ hash' = hash)

C23_DumpPure == [][C23_DumpStep]_vars /\ [](\A t \in Consumers : pc[t] = "dump_body" => mutex = t)

C23_Witness ==
    /\ os.written /\ os.items = 1
    /\ last.op = "dumpState"
    /\ Len(queue) = 1
    /\ \E m \in Items : hash[m] # NoHash
    /\ \E t \in Producers : pc[t] = "enq_lock"

\* What a report r says, read back from its lines.
ItemLines(r) == SelectSeq(r.lines, LAMBDA l : l.kind = "item")

BinaryLines(r) == SelectSeq(r.lines, LAMBDA l : l.kind = "item" /\ l.binary)

TextLines(r) == SelectSeq(r.lines, LAMBDA l : l.kind = "item" /\ ~l.binary)

RepeatsTotal(r) ==
    LET F[i \in 0..Len(r.lines)] ==
            IF i = 0 THEN 0
            ELSE F[i - 1] + (IF r.lines[i].kind = "repeats" THEN r.lines[i].n ELSE 0)
    IN F[Len(r.lines)]

SizeTotal(q) ==
    LET F[i \in 0..Len(q)] == IF i = 0 THEN 0 ELSE F[i - 1] + Message[q[i]].size
    IN F[Len(q)]

\* This step is a call of dumpState.
DumpStep == last'.op = "dumpState"

\* C24: the report's 'queue items' is the length of the queue and its 'queue
\* size' is the sum of the sizes of all queued messages, those counted as
\* repeats included.
C24_DumpTotals ==
    [][DumpStep =>
          /\ os'.written
          /\ os'.items = Len(queue)
          /\ os'.bytes = SizeTotal(queue)
      ]_vars

C24_Witness ==
    /\ last.op = "dumpState"
    /\ Len(queue) = 3
    /\ os.items = 3 /\ os.bytes = SizeTotal(queue)
    /\ RepeatsTotal(os) >= 1
    /\ \E k \in DOMAIN queue : isBinary(queue[k])

\* C25: every binary message of the queue has a 'type: binary' line of its
\* own, in queue order, and the repeat markers count text messages only:
\* the text lines and the repeats add up to the text messages of the queue.
C25_BinaryListed ==
    [][DumpStep =>
          LET bin == SelectSeq(queue, isBinary)
              txt == SelectSeq(queue, LAMBDA m : ~isBinary(m))
          IN /\ Len(BinaryLines(os')) = Len(bin)
             /\ \A k \in DOMAIN bin :
                   /\ BinaryLines(os')[k].id = Message[bin[k]].id
                   /\ BinaryLines(os')[k].str = getAbbreviatedMessage(bin[k])
             /\ Len(TextLines(os')) + RepeatsTotal(os') = Len(txt)
      ]_vars

C25_Witness ==
    /\ last.op = "dumpState"
    /\ Len(queue) = 3
    /\ os = dumpState(queue)
    /\ queue[1] = queue[2] /\ isBinary(queue[1])
    /\ ~isBinary(queue[3])
    /\ getAbbreviatedMessage(queue[3]) = getAbbreviatedMessage(queue[2])

\* C26: a message is counted in a repeat marker only if it is a text message
\* that directly follows a text message with the same abbreviated content:
\* the first message of the queue is listed, every repeat marker directly
\* follows the line of a text message, and the repeats add up to exactly
\* those messages.
TextRepeat(q, k) ==
    /\ k > 1
    /\ ~isBinary(q[k]) /\ ~isBinary(q[k - 1])
    /\ getAbbreviatedMessage(q[k]) = getAbbreviatedMessage(q[k - 1])

C26_OnlyTextRepeats ==
    [][DumpStep =>
          /\ queue # <<>> =>
                /\ os'.lines # <<>>
                /\ os'.lines[1].kind = "item"
                /\ os'.lines[1].id = Message[queue[1]].id
          /\ \A j \in DOMAIN os'.lines :
                os'.lines[j].kind = "repeats" =>
                    /\ j > 1
                    /\ os'.lines[j - 1].kind = "item"
                    /\ ~os'.lines[j - 1].binary
          /\ RepeatsTotal(os') = Cardinality({k \in DOMAIN queue : TextRepeat(queue, k)})
      ]_vars

\* C27: a cached hash that is set is the position hash of the message's own
\* tile descriptor, and no operation (enqueue of the same or of another
\* message, dequeue, size, dumpState) changes a hash that is set.
C27_HashOfOwnTile ==
    \A m \in DOMAIN Message :
        hash[m] # NoHash =>
            /\ IsTile(m)
            /\ hash[m] = equalityHash(TileDesc_parse(firstLine(m)))

C27_HashKept ==
    \A m \in DOMAIN Message : hash[m] # NoHash => hash'[m] = hash[m]

C27_HashStable == []C27_HashOfOwnTile /\ [][C27_HashKept]_vars

C27_Witness ==
    /\ \E m \in DOMAIN Message :
          /\ hash[m] # NoHash
          /\ Cardinality({i \in DOMAIN calls : calls[i] = m}) >= 2
          /\ \E o \in DOMAIN out : out[o].item = m
    /\ os.written
    /\ last.op = "dumpState"

\* How many times setHash was called on message m.
SetHashCalls(m) == Cardinality({i \in DOMAIN hashSets : hashSets[i] = m})

\* C28: setHash is called at most once on any message, however often the
\* message is enqueued, and exactly once on every tile: message that was
\* appended to the queue.
C28_HashSetOnce ==
    /\ \A m \in DOMAIN Message : SetHashCalls(m) <= 1
    /\ \A i \in DOMAIN calls :
          (firstToken(calls[i]) = "tile:" /\ fate[i] \notin {"dropped", "threw"}) =>
              SetHashCalls(calls[i]) = 1

\* C29: a cached hash is written, and setHash is called, only in a step of
\* a thread that holds the mutex and is inside enqueue's deduplicate.
C29_HashStep ==
    (hash' # hash \/ hashSets' # hashSets) =>
        \E t \in Producers :
            /\ mutex = t
            /\ pc[t] = "enq_body"
            /\ pc'[t] # pc[t]

C29_HashUnderLock ==
    [][C29_HashStep]_vars /\ [](\A t \in Threads : pc[t] = "enq_body" => mutex = t)

C29_Witness ==
    /\ \E t \in Producers :
          /\ pc[t] = "enq_push"
          /\ hash[arg[t]] # NoHash
          /\ \E u \in Producers \ {t} : pc[u] = "enq_lock" /\ hash[arg[u]] = NoHash
    /\ hashSets # <<>>

\* C30: with the termination flag clear, enqueuing a message whose command is
\* none of tile:, invalidatecursor:, setpart:, progress: and
\* invalidateviewcursor: removes nothing: the queue afterwards is the queue
\* before followed by the message, also when the same message is queued.
C30_PlainAppend ==
    [][\A it \in Items :
          (EnqueueStep(it) /\ ~terminationFlag /\ Plain(it)) =>
              /\ queue' = Append(queue, it)
              /\ last'.res = "queued"
      ]_vars

C30_Witness ==
    /\ ~terminationFlag
    /\ last.op = "enqueue" /\ last.res = "queued" /\ Plain(last.item)
    /\ Len(queue) = 3
    /\ queue[1] = last.item /\ queue[3] = last.item
    /\ IsTile(queue[2])

\* C31: an enqueue called while the termination flag is set never reaches
\* deduplicate or push_back: no step of it changes the queue, a cached hash or
\* the record of setHash calls, and it returns the length of the queue as it
\* is, which is 0 only for an empty queue.
C31_DropStep ==
    \A t \in Producers :
        (lateCall[t] /\ pc'[t] # pc[t]) =>
            /\ queue' = queue /\ hash' = hash /\ hashSets' = hashSets
            /\ pc'[t] \notin {"enq_body", "enq_push"}
            /\ pc'[t] = "idle" =>
                  /\ last' = [op |-> "enqueue", item |-> arg[t],
                              res |-> "dropped", ret |-> Len(queue)]
                  /\ (last'.ret = 0 <=> queue = <<>>)

C31_DropFrame == [][C31_DropStep]_vars

C31_Witness ==
    /\ terminationFlag
    /\ last.op = "enqueue" /\ last.res = "dropped" /\ last.ret = 1
    /\ IsTile(last.item) /\ hash[last.item] = NoHash
    /\ Len(queue) = 1 /\ TileEq(queue[1], last.item)

\* C32: with the termination flag clear and nothing dequeued, once the
\* producers' enqueues of messages that all supersede one another have
\* returned, exactly one of them is queued: the one whose enqueue held the
\* lock last.
AllReturned == \A t \in Producers : pc[t] = "idle"

C32_OneSurvivor ==
    (/\ AllReturned
     /\ ~terminationFlag
     /\ out = <<>>
     /\ Len(calls) >= 2
     /\ \A i \in DOMAIN calls : Appended(i)
     /\ \A i, j \in DOMAIN calls : i # j => Interacts(calls[i], calls[j]))
        => queue = <<calls[Len(calls)]>>

C32_Witness ==
    /\ AllReturned
    /\ ~terminationFlag
    /\ out = <<>>
    /\ Len(calls) = 2
    /\ calls[1] # calls[2] /\ TileEq(calls[1], calls[2])
    /\ fate[1] = "superseded"
    /\ queue = <<calls[2]>>

\* C33: an enqueue never makes the queue shorter and never longer by more
\* than one message: it removes at most one queued message.
C33_AtMostOneRemoved ==
    [][\A it \in Items :
          EnqueueStep(it) =>
              /\ Len(queue') \in {Len(queue), Len(queue) + 1}
              /\ Cardinality({k \in DOMAIN qstamp :
                                \A l \in DOMAIN qstamp' : qstamp'[l] # qstamp[k]}) <= 1
      ]_vars

C33_Witness ==
    /\ ~terminationFlag
    /\ last.op = "enqueue" /\ last.res = "queued"
    /\ Len(queue) = 2 /\ Len(calls) = 3 /\ out = <<>>
    /\ firstToken(queue[1]) = firstToken(queue[2])
    /\ firstToken(calls[1]) = firstToken(queue[1])

\* C34: an enqueue leaves every queued message whose command token differs
\* from that of the incoming message in the queue, in the same order.
C34_OtherTokensKept ==
    [][\A it \in Items :
          EnqueueStep(it) =>
              LET Other(m) == firstToken(m) # firstToken(it)
              IN SelectSeq(queue', Other) = SelectSeq(queue, Other)
      ]_vars

C34_Witness ==
    /\ last.op = "enqueue" /\ last.res = "queued"
    /\ Len(calls) = 3 /\ Len(queue) = 2 /\ out = <<>>
    /\ fate[2] = "superseded"
    /\ queue[1] = calls[1]
    /\ firstToken(queue[1]) = "invalidateviewcursor:"
    /\ firstToken(queue[2]) = "invalidatecursor:"

\* C35: when an earlier queued tile: message has the hash of the incoming tile
\* but another descriptor and a later queued tile: message has the incoming
\* descriptor, the enqueue removes the later one and keeps the earlier one.
C35_SearchPastCollision ==
    [][\A it \in Items :
          (/\ EnqueueStep(it)
           /\ ~terminationFlag
           /\ IsTile(it))
          => \A i, j \in DOMAIN queue :
                (/\ i < j
                 /\ IsTile(queue[i]) /\ ~TileEq(queue[i], it)
                 /\ hash[queue[i]] = equalityHash(TileDesc_parse(firstLine(it)))
                 /\ TileEq(queue[j], it))
                => queue' = Append(Without(queue, j), it)
      ]_vars

C35_Witness ==
    /\ last.op = "enqueue" /\ last.res = "queued" /\ IsTile(last.item)
    /\ Len(calls) = 3 /\ Len(queue) = 2 /\ out = <<>>
    /\ fate[2] = "superseded"
    /\ queue[1] = calls[1] /\ queue[2] = calls[3]
    /\ IsTile(queue[1]) /\ ~TileEq(queue[1], queue[2])
    /\ hash[queue[1]] = hash[queue[2]]

\* C36: every queued tile: message has its cached hash set to the position
\* hash of its own descriptor, so the hash test passes for every queued tile
\* whose descriptor is that of an incoming tile.
C36_QueuedTilesHashed ==
    \A k \in DOMAIN queue :
        firstToken(queue[k]) = "tile:" =>
            /\ ParseOk(firstLine(queue[k]))
            /\ hash[queue[k]] # NoHash
            /\ hash[queue[k]] = equalityHash(TileDesc_parse(firstLine(queue[k])))
            /\ \A it \in Items :
                  TileEq(queue[k], it) =>
                      TileCandidate(equalityHash(TileDesc_parse(firstLine(it))),
                                    queue[k], hash)

C36_Witness ==
    /\ Len(queue) = 3
    /\ \A k \in DOMAIN queue : IsTile(queue[k]) /\ hash[queue[k]] # NoHash
    /\ hash[queue[1]] = hash[queue[3]]
    /\ hash[queue[1]] # hash[queue[2]]

\* C37: every message an enqueue appended is in exactly one place: queued
\* once, removed by a later enqueue of a message that supersedes it, or
\* returned by exactly one dequeue; and dequeue returns only appended messages.
InQueue(i) == Cardinality({k \in DOMAIN qstamp : qstamp[k] = i})

Returned(i) == Cardinality({o \in DOMAIN out : out[o].n = i})

Superseded(i) ==
    /\ fate[i] = "superseded"
    /\ \E j \in DOMAIN calls : j > i /\ Appended(j) /\ Interacts(calls[j], calls[i])

C37_Conservation ==
    /\ Len(qstamp) = Len(queue)
    /\ \A k \in DOMAIN queue : queue[k] = calls[qstamp[k]]
    /\ \A i \in DOMAIN calls :
          IF Appended(i)
          THEN InQueue(i) + Returned(i) + (IF Superseded(i) THEN 1 ELSE 0) = 1
          ELSE InQueue(i) = 0 /\ Returned(i) = 0
    /\ \A o \in DOMAIN out :
          /\ out[o].n \in DOMAIN calls
          /\ Appended(out[o].n)
          /\ out[o].item = calls[out[o].n]

C37_Witness ==
    /\ Len(calls) = 3
    /\ \E i, j, k \in DOMAIN calls :
          /\ InQueue(i) = 1 /\ Returned(i) = 0
          /\ Returned(j) = 1 /\ InQueue(j) = 0
          /\ Superseded(k) /\ InQueue(k) = 0 /\ Returned(k) = 0

\* C38: under fair scheduling of the threads and of the mutex, if the consumer
\* calls dequeue again and again and the termination flag is never set, every
\* message an enqueue appended is eventually returned by a dequeue unless a
\* later enqueue of a message that supersedes it removed it.
ConsumerCalls == \E t \in Consumers : DequeueCheck(t)

Settled(i) ==
    /\ i \in DOMAIN calls
    /\ Returned(i) = 1 \/ Superseded(i)

C38_EventualDelivery ==
    \A i \in 1..MaxFlowCalls :
        []<><<ConsumerCalls>>_vars =>
            ((i \in DOMAIN calls /\ Appended(i)) ~> (Settled(i) \/ terminationFlag))

C38_Witness ==
    /\ ~terminationFlag
    /\ queue = <<>>
    /\ Len(calls) = 3
    /\ \E i, j \in DOMAIN calls : Returned(i) = 1 /\ Superseded(j)

\* C39: with producers enqueuing concurrently and the termination flag clear,
\* the messages of one producer that were not superseded leave the queue in
\* the order in which that producer enqueued them: of two such messages that
\* were dequeued or are still queued, the one enqueued first comes first.
FlowOrder == [o \in DOMAIN out |-> out[o].n] \o qstamp

C39_ProducerOrder ==
    ~terminationFlag =>
        \A a, b \in DOMAIN FlowOrder :
            (a < b /\ caller[FlowOrder[a]] = caller[FlowOrder[b]])
                => FlowOrder[a] < FlowOrder[b]

C39_Witness ==
    /\ ~terminationFlag
    /\ \E a, b \in DOMAIN out :
          /\ a < b
          /\ caller[out[a].n] = "p1" /\ caller[out[b].n] = "p1"
          /\ \E i \in DOMAIN calls :
                caller[i] = "p2" /\ out[a].n < i /\ i < out[b].n

\* C40: in every report the number of listing lines plus the sum of the
\* counts of the repeat markers is the length of the queue, and no repeat
\* marker has the count 0.
C40_EveryMessageOnce ==
    [][DumpStep =>
          /\ Len(ItemLines(os')) + RepeatsTotal(os') = Len(queue)
          /\ \A j \in DOMAIN os'.lines :
                /\ os'.lines[j].kind \in {"item", "repeats"}
                /\ os'.lines[j].kind = "repeats" => os'.lines[j].n >= 1
      ]_vars

C40_Witness ==
    /\ last.op = "dumpState"
    /\ os = dumpState(queue)
    /\ Len(queue) = 3
    /\ Len(ItemLines(os)) = 1
    /\ RepeatsTotal(os) = 2
    /\ Len(os.lines) = 2

====
